---- MODULE Spec2Model ----
(***************************************************************************)
(* Budget-governed remediation pipeline of dnsweeper-cli-web:              *)
(*   scripts/cost_optimizer.py  (CostOptimizer: ledger, budget governor,   *)
(*                               model selector)                           *)
(*   scripts/fix_all_errors.py  (ErrorFixer.fix_errors, CostTracker)       *)
(*                                                                         *)
(* Money is counted in units of a quarter of a micro-dollar, so that the   *)
(* per-million-token prices 0.25, 1.25, 3, 15, 15, 75 and every cost are   *)
(* integers: cost = tokens * (price / 0.25).  The budget is kept in whole  *)
(* dollars.  The float `percentage` of the code is never stored; every     *)
(* comparison on it is done by cross-multiplication.                       *)
(***************************************************************************)
EXTENDS Integers, Sequences, FiniteSets, TLC

VARIABLES
    config_file,      \* config/economy-mode.json on disk
    tracking_file,    \* cost-tracking.json on disk
    procs,            \* the update-usage invocations in flight, step by step
    monthly_budget,   \* CostOptimizer.monthly_budget (dollars)
    current_mode,     \* CostOptimizer.current_mode
    tracking_data,    \* CostOptimizer.tracking_data["entries"]
    today,            \* datetime.now(): [month, day]
    fix_history,      \* ErrorFixer.fix_history / .fix-history.json
    fx,               \* the fix_errors pass in flight
    last              \* the last operation, its inputs and what it returned

vars == <<config_file, tracking_file, procs, monthly_budget, current_mode,
          tracking_data, today, fix_history, fx, last>>

----------------------------------------------------------------------------
(* Bounds of the model *)

MaxEntries == 3     \* entries the ledger may hold
MaxTicks == 1       \* times the clock moves on
MaxHistory == 2     \* fix records the history may hold

----------------------------------------------------------------------------
(* Constants of CostOptimizer.__init__ *)

Haiku == "claude-3-haiku-20240307"
Sonnet == "claude-3-5-sonnet-20241022"
Opus == "claude-3-opus-20240229"
NoModel == "None"

DefaultBudget == 40

\* Thresholds in hundredths: 0.75, 0.80, 0.95.  The code compares them with
\* `percentage`, which is on the 0..100 scale.
warning_threshold == 75
economy_threshold == 80
emergency_threshold == 95

\* 1 dollar = 4,000,000 cost units (1_000_000 tokens at the 0.25 price step)
UnitsPerDollar == 4000000

valid_modes == {"normal", "economy", "emergency"}

\* model_prices, in steps of 0.25 dollars per million tokens
model_prices(model, price_key) ==
    CASE model = Haiku  -> IF price_key = "input" THEN 1 ELSE 5
      [] model = Sonnet -> IF price_key = "input" THEN 12 ELSE 60
      [] model = Opus   -> IF price_key = "input" THEN 60 ELSE 300

KnownModels == {Haiku, Sonnet, Opus}

----------------------------------------------------------------------------
(* Helpers *)

\* dict.get(key, default)
Get(entry, key, default) == IF key \in DOMAIN entry THEN entry[key] ELSE default

RECURSIVE SumCost(_)
SumCost(entries) ==
    IF entries = <<>> THEN 0
    ELSE Get(entries[1], "cost", 0) + SumCost(Tail(entries))

\* The optimizer object together with the two files it owns.
Self == [monthly_budget |-> monthly_budget,
         current_mode   |-> current_mode,
         tracking_data  |-> tracking_data,
         config_file    |-> config_file,
         tracking_file  |-> tracking_file]

\* A file on disk: exists, the JSON document it holds, and complete = the
\* document is whole (json.load reads it).  open(file, 'w') leaves the file
\* existing and empty until json.dump has written the whole document.
NoConfigFile == [exists |-> FALSE, complete |-> FALSE,
                 monthly_budget |-> 0, current_mode |-> "normal"]
NoTrackingFile == [exists |-> FALSE, complete |-> FALSE, entries |-> <<>>]
OpenedForWriting(nofile) == [nofile EXCEPT !.exists = TRUE]

\* save_config: writes budget and mode (thresholds are constants)
save_config(self) ==
    [self EXCEPT !.config_file = [exists |-> TRUE, complete |-> TRUE,
                                  monthly_budget |-> self.monthly_budget,
                                  current_mode |-> self.current_mode]]

\* Mutant: only the newest entry is written to the tracking file
save_tracking_data_NewestOnly(self) ==
    [self EXCEPT !.tracking_file =
        [exists |-> TRUE, complete |-> TRUE,
         entries |-> IF self.tracking_data = <<>> THEN <<>>
                     ELSE <<self.tracking_data[Len(self.tracking_data)]>>]]

\* save_tracking_data
save_tracking_data(self) ==
    [self EXCEPT !.tracking_file = [exists |-> TRUE, complete |-> TRUE,
                                    entries |-> self.tracking_data]]

\* get_current_month_usage: entries whose date starts with "YYYY-MM" of now
get_current_month_usage(self, now) ==
    LET InMonth(e) == Get(e, "date", [month |-> 0, day |-> 0]).month = now.month
    IN  SumCost(SelectSeq(self.tracking_data, InMonth))

\* get_daily_usage: entries whose date equals "YYYY-MM-DD" of now
get_daily_usage(self, now) ==
    LET IsToday(e) == Get(e, "date", [month |-> 0, day |-> 0]) = now
    IN  SumCost(SelectSeq(self.tracking_data, IsToday))

\* calculate_cost: (tokens / 1_000_000) * price_per_million, in cost units
calculate_cost(tokens, model, is_input) ==
    LET m == IF model \notin KnownModels THEN Haiku ELSE model
        price_key == IF is_input THEN "input" ELSE "output"
    IN  tokens * model_prices(m, price_key)

\* int(tokens_used * 0.7)
InputTokens(tokens_used) == (tokens_used * 7) \div 10

\* Cost units that make 0.01 percent (resp. 0.1 percent) of the budget
HundredthUnit(budget) == budget * (UnitsPerDollar \div 10000)
TenthUnit(budget) == budget * (UnitsPerDollar \div 1000)

\* percentage >= h / 100, for percentage = usage / budget * 100
PercentageAtLeast(usage, budget, h) == usage >= h * HundredthUnit(budget)

\* round(percentage, 1), in tenths of a percent.  On an exact tie the float
\* of the code falls on either side; the model rounds ties to even.
RoundedTenths(usage, budget) ==
    LET d == TenthUnit(budget)
        q == usage \div d
        r == usage % d
    IN  IF 2 * r < d THEN q
        ELSE IF 2 * r > d THEN q + 1
        ELSE IF q % 2 = 0 THEN q ELSE q + 1

\* round(x, 2) of a dollar amount given in cost units, in cents (ties to even)
RoundedCents(units) ==
    LET d == UnitsPerDollar \div 100
        a == IF units < 0 THEN -units ELSE units
        q == a \div d
        r == a % d
        n == IF 2 * r < d THEN q
             ELSE IF 2 * r > d THEN q + 1
             ELSE IF q % 2 = 0 THEN q ELSE q + 1
    IN  IF units < 0 THEN -n ELSE n

\* f"Budget usage at {percentage:.1f}%"
BudgetReason(usage, budget) ==
    LET t == RoundedTenths(usage, budget)
    IN  "Budget usage at " \o ToString(t \div 10) \o "." \o ToString(t % 10) \o "%"

----------------------------------------------------------------------------
(* CostOptimizer *)

\* Mutant: the saved mode is not read back; every process starts in normal
load_config_StartsNormal(self) ==
    IF self.config_file.exists
    THEN IF self.config_file.complete
         THEN [self EXCEPT !.monthly_budget = self.config_file.monthly_budget,
                           !.current_mode = "normal"]
         ELSE [self EXCEPT !.current_mode = "normal"]
    ELSE save_config([self EXCEPT !.current_mode = "normal"])

\* load_config, called on a fresh object (monthly_budget = 40.0)
load_config(self) ==
    IF self.config_file.exists
    THEN IF self.config_file.complete
         THEN [self EXCEPT !.monthly_budget = self.config_file.monthly_budget,
                           !.current_mode = self.config_file.current_mode]
         ELSE [self EXCEPT !.current_mode = "normal"]
    ELSE save_config([self EXCEPT !.current_mode = "normal"])

\* Mutant: the saved ledger is not read back; every process starts empty
load_tracking_data_Fresh(self) ==
    [self EXCEPT !.tracking_data = <<>>]

\* load_tracking_data
load_tracking_data(self) ==
    IF self.tracking_file.exists
    THEN IF self.tracking_file.complete
         THEN [self EXCEPT !.tracking_data = self.tracking_file.entries]
         ELSE [self EXCEPT !.tracking_data = <<>>]
    ELSE [self EXCEPT !.tracking_data = <<>>]

\* CostOptimizer.__init__ over the files found on disk
NewOptimizer(cfg, trk) ==
    load_tracking_data(load_config(
        [monthly_budget |-> DefaultBudget,
         current_mode   |-> "normal",
         tracking_data  |-> <<>>,
         config_file    |-> cfg,
         tracking_file  |-> trk]))

\* the log_entry of set_mode; old_mode is read after current_mode was assigned
ModeChangeEntry(self, mode, reason, now) ==
    [date     |-> now,
     action   |-> "mode_change",
     old_mode |-> self.current_mode,
     new_mode |-> mode,
     reason   |-> reason]

\* Mutant: the config is saved before current_mode is assigned
set_mode_SavesFirst(self, mode, reason, now) ==
    LET s1 == [save_config(self) EXCEPT !.current_mode = mode]
        s2 == [s1 EXCEPT !.tracking_data =
                             Append(@, ModeChangeEntry(s1, mode, reason, now))]
    IN  save_tracking_data(s2)

\* set_mode(mode, reason) for a valid mode
set_mode(self, mode, reason, now) ==
    LET s1 == save_config([self EXCEPT !.current_mode = mode])
        s2 == [s1 EXCEPT !.tracking_data =
                             Append(@, ModeChangeEntry(s1, mode, reason, now))]
    IN  save_tracking_data(s2)

\* the status dict of check_budget_status, built before the mode is switched
BudgetStatus(self, now, status) ==
    LET monthly_usage == get_current_month_usage(self, now)
    IN  [monthly_budget   |-> self.monthly_budget,
         monthly_usage    |-> RoundedCents(monthly_usage),
         daily_usage      |-> RoundedCents(get_daily_usage(self, now)),
         remaining_budget |-> RoundedCents(self.monthly_budget * UnitsPerDollar
                                           - monthly_usage),
         percentage_used  |-> RoundedTenths(monthly_usage, self.monthly_budget),
         days_remaining   |-> 30 - now.day,
         current_mode     |-> self.current_mode,
         status           |-> status]

\* Mutant: the thresholds are tested on the spend of the day
check_budget_status_DailyUsage(self, now) ==
    LET daily_usage == get_daily_usage(self, now)
        budget == self.monthly_budget
        reason == BudgetReason(daily_usage, budget)
    IN  IF PercentageAtLeast(daily_usage, budget, emergency_threshold)
        THEN [self   |-> set_mode(self, "emergency", reason, now),
              status |-> BudgetStatus(self, now, "emergency")]
        ELSE IF PercentageAtLeast(daily_usage, budget, economy_threshold)
        THEN [self   |-> set_mode(self, "economy", reason, now),
              status |-> BudgetStatus(self, now, "economy")]
        ELSE IF PercentageAtLeast(daily_usage, budget, warning_threshold)
        THEN [self   |-> self,
              status |-> BudgetStatus(self, now, "warning")]
        ELSE [self   |-> self,
              status |-> BudgetStatus(self, now, "ok")]

\* Mutant: the economy test comes before the emergency test
check_budget_status_EconomyFirst(self, now) ==
    LET monthly_usage == get_current_month_usage(self, now)
        budget == self.monthly_budget
        reason == BudgetReason(monthly_usage, budget)
    IN  IF PercentageAtLeast(monthly_usage, budget, economy_threshold)
        THEN [self   |-> set_mode(self, "economy", reason, now),
              status |-> BudgetStatus(self, now, "economy")]
        ELSE IF PercentageAtLeast(monthly_usage, budget, emergency_threshold)
        THEN [self   |-> set_mode(self, "emergency", reason, now),
              status |-> BudgetStatus(self, now, "emergency")]
        ELSE [self   |-> self,
              status |-> BudgetStatus(self, now, "ok")]

\* Mutant: below the economy threshold the mode is set back to normal
check_budget_status_ResetsToNormal(self, now) ==
    LET monthly_usage == get_current_month_usage(self, now)
        budget == self.monthly_budget
        reason == BudgetReason(monthly_usage, budget)
    IN  IF PercentageAtLeast(monthly_usage, budget, emergency_threshold)
        THEN [self   |-> set_mode(self, "emergency", reason, now),
              status |-> BudgetStatus(self, now, "emergency")]
        ELSE IF PercentageAtLeast(monthly_usage, budget, economy_threshold)
        THEN [self   |-> set_mode(self, "economy", reason, now),
              status |-> BudgetStatus(self, now, "economy")]
        ELSE [self   |-> set_mode(self, "normal", reason, now),
              status |-> BudgetStatus(self, now, "ok")]

\* check_budget_status: the object after the call and the status returned
check_budget_status(self, now) ==
    LET monthly_usage == get_current_month_usage(self, now)
        budget == self.monthly_budget
        reason == BudgetReason(monthly_usage, budget)
    IN  IF PercentageAtLeast(monthly_usage, budget, emergency_threshold)
        THEN [self   |-> set_mode(self, "emergency", reason, now),
              status |-> BudgetStatus(self, now, "emergency")]
        ELSE IF PercentageAtLeast(monthly_usage, budget, economy_threshold)
        THEN [self   |-> set_mode(self, "economy", reason, now),
              status |-> BudgetStatus(self, now, "economy")]
        ELSE IF PercentageAtLeast(monthly_usage, budget, warning_threshold)
        THEN [self   |-> self,
              status |-> BudgetStatus(self, now, "warning")]
        ELSE [self   |-> self,
              status |-> BudgetStatus(self, now, "ok")]

\* Mutant: the entry is dated one day late
UsageEntry_NextDay(tokens_used, model, action, now) ==
    LET input_tokens == InputTokens(tokens_used)
        output_tokens == tokens_used - input_tokens
    IN  [date          |-> [now EXCEPT !.day = @ + 1],
         model         |-> model,
         tokens_used   |-> tokens_used,
         input_tokens  |-> input_tokens,
         output_tokens |-> output_tokens,
         cost          |-> calculate_cost(input_tokens, model, TRUE)
                           + calculate_cost(output_tokens, model, FALSE),
         action        |-> action]

\* Mutant: the entry of add_usage does not name the model
UsageEntry_NoModel(tokens_used, model, action, now) ==
    LET input_tokens == InputTokens(tokens_used)
        output_tokens == tokens_used - input_tokens
    IN  [date          |-> now,
         tokens_used   |-> tokens_used,
         input_tokens  |-> input_tokens,
         output_tokens |-> output_tokens,
         cost          |-> calculate_cost(input_tokens, model, TRUE)
                           + calculate_cost(output_tokens, model, FALSE),
         action        |-> action]

\* the entry add_usage builds
UsageEntry(tokens_used, model, action, now) ==
    LET input_tokens == InputTokens(tokens_used)
        output_tokens == tokens_used - input_tokens
    IN  [date          |-> now,
         model         |-> model,
         tokens_used   |-> tokens_used,
         input_tokens  |-> input_tokens,
         output_tokens |-> output_tokens,
         cost          |-> calculate_cost(input_tokens, model, TRUE)
                           + calculate_cost(output_tokens, model, FALSE),
         action        |-> action]

\* add_usage: append, save, then re-evaluate the budget
add_usage(self, tokens_used, model, action, now) ==
    LET entry == UsageEntry(tokens_used, model, action, now)
        s1 == [self EXCEPT !.tracking_data = Append(@, entry)]
    IN  check_budget_status(save_tracking_data(s1), now).self

\* Mutant: `or` for `and` in economy mode
should_process_error_Or(self, error_type, severity) ==
    IF self.current_mode = "normal" THEN TRUE
    ELSE IF self.current_mode = "economy"
    THEN error_type \in {"typescript", "test"} \/ severity \in {"error", "critical"}
    ELSE FALSE

\* should_process_error
should_process_error(self, error_type, severity) ==
    IF self.current_mode = "normal" THEN TRUE
    ELSE IF self.current_mode = "economy"
    THEN error_type \in {"typescript", "test"} /\ severity \in {"error", "critical"}
    ELSE FALSE

\* The table of the normal mode
NormalTier(error_count, percentage_used) ==
    IF error_count < 5
    THEN <<Haiku, "normal">>
    ELSE IF error_count < 20
    THEN IF percentage_used < 500
         THEN <<Sonnet, "normal">>
         ELSE <<Haiku, "budget-conscious">>
    ELSE IF percentage_used < 300
         THEN <<Sonnet, "normal">>
         ELSE <<Haiku, "budget-conscious">>

\* Mutant: the emergency branch is missing
SelectByMode_NoEmergency(mode, error_count, percentage_used) ==
    IF mode \in {"economy", "emergency"}
    THEN <<Haiku, "economy">>
    ELSE NormalTier(error_count, percentage_used)

\* Mutant: the economy branch is missing
SelectByMode_NoEconomy(mode, error_count, percentage_used) ==
    IF mode = "emergency"
    THEN <<NoModel, "Budget limit reached - emergency mode">>
    ELSE NormalTier(error_count, percentage_used)

\* Mutant: many errors get the expensive tier below 50 percent, not 30
SelectByMode_OneLimit(mode, error_count, percentage_used) ==
    IF mode = "emergency"
    THEN <<NoModel, "Budget limit reached - emergency mode">>
    ELSE IF mode = "economy"
    THEN <<Haiku, "economy">>
    ELSE IF error_count < 5
    THEN <<Haiku, "normal">>
    ELSE IF percentage_used < 500
         THEN <<Sonnet, "normal">>
         ELSE <<Haiku, "budget-conscious">>

\* select_model_by_budget after its budget check: the branches on the mode,
\* error_count and budget_status["percentage_used"] (tenths of a percent)
SelectByMode(mode, error_count, percentage_used) ==
    IF mode = "emergency"
    THEN <<NoModel, "Budget limit reached - emergency mode">>
    ELSE IF mode = "economy"
    THEN <<Haiku, "economy">>
    ELSE NormalTier(error_count, percentage_used)

\* select_model_by_budget: the object after the call and the pair returned
select_model_by_budget(self, error_count, now) ==
    LET c == check_budget_status(self, now)
    IN  [self   |-> c.self,
         result |-> SelectByMode(c.self.current_mode, error_count,
                                 c.status.percentage_used)]

----------------------------------------------------------------------------
(* Inputs *)

\* (model, tokens_used) of the usage events; "gpt-4" is priced as Haiku
UsageInputs == {<<Haiku, 600000>>, <<Opus, 1000000>>, <<"gpt-4", 15>>}
Budgets == {DefaultBudget, 30}
ErrorCounts == {4, 25}
ErrorTypes == {"typescript", "test", "eslint"}
Severities == {"error", "critical", "warning"}
Reasons == {"Manual override"}

----------------------------------------------------------------------------
(* The state machine: cost_optimizer.py *)

\* The invocations of the command line that may be in flight, and none of them
ProcIds == {1}
NoProcs == [p \in ProcIds |-> [pc |-> "idle"]]

Idle == fx.pc = "idle"

\* Writes the fields of the optimizer object back to the variables
Becomes(self) ==
    /\ monthly_budget' = self.monthly_budget
    /\ current_mode' = self.current_mode
    /\ tracking_data' = self.tracking_data
    /\ config_file' = self.config_file
    /\ tracking_file' = self.tracking_file

\* The ledger of the model holds at most MaxEntries entries
Fits(self) == Len(self.tracking_data) <= MaxEntries

\* What every operation records of the state it started in
Pre(op) == [op |-> op, pre_mode |-> current_mode]

Init ==
    LET self == NewOptimizer(NoConfigFile, NoTrackingFile)
    IN  /\ monthly_budget = self.monthly_budget
        /\ current_mode = self.current_mode
        /\ tracking_data = self.tracking_data
        /\ config_file = self.config_file
        /\ tracking_file = self.tracking_file
        /\ today = [month |-> 1, day |-> 1]
        /\ fix_history = <<>>
        /\ fx = [pc |-> "idle"]
        /\ procs = NoProcs
        /\ last = [op |-> "init"]

\* update-usage / add_usage(tokens_used, model, action), while the ledger
\* holds at most max_entries entries
AddUsageWithin(max_entries) ==
    /\ Idle
    /\ \E u \in UsageInputs :
         LET entry == UsageEntry(u[2], u[1], "fix_errors", today)
         IN  /\ Len(add_usage(Self, u[2], u[1], "fix_errors",
                              today).tracking_data) <= max_entries
             /\ Becomes(add_usage(Self, u[2], u[1], "fix_errors", today))
             /\ last' = Pre("add_usage") @@
                        [cost |-> entry.cost, tokens_used |-> u[2],
                         pre_daily |-> get_daily_usage(Self, today),
                         pre_monthly |-> get_current_month_usage(Self, today)]
    /\ UNCHANGED <<today, fix_history, fx, procs>>

AddUsage == AddUsageWithin(MaxEntries)

\* main(), check-budget: the exit code, decided on the status dict
CheckBudgetExit(status) ==
    IF status.current_mode = "emergency" THEN 1
    ELSE IF status.percentage_used > 900 THEN 0
    ELSE 0

\* check-budget, get-status / check_budget_status()
CheckBudget ==
    /\ Idle
    /\ LET c == check_budget_status(Self, today)
       IN  /\ Fits(c.self)
           /\ Becomes(c.self)
           /\ last' = Pre("check_budget_status") @@
                      [status |-> c.status,
                       exit_code |-> CheckBudgetExit(c.status)]
    /\ UNCHANGED <<today, fix_history, fx, procs>>

\* set-economy-mode / set_mode(mode, reason)
SetMode ==
    /\ Idle
    /\ \E mode \in valid_modes, reason \in Reasons :
         /\ Fits(set_mode(Self, mode, reason, today))
         /\ Becomes(set_mode(Self, mode, reason, today))
         /\ last' = [op |-> "set_mode", mode |-> mode, reason |-> reason]
    /\ UNCHANGED <<today, fix_history, fx, procs>>

\* select_model_by_budget(error_count)
SelectModel ==
    /\ Idle
    /\ \E error_count \in ErrorCounts :
         LET r == select_model_by_budget(Self, error_count, today)
         IN  /\ Fits(r.self)
             /\ Becomes(r.self)
             /\ last' = Pre("select_model_by_budget") @@
                        [error_count |-> error_count,
                         percentage_used |->
                             RoundedTenths(get_current_month_usage(Self, today),
                                           monthly_budget),
                         model |-> r.result[1], reason |-> r.result[2]]
    /\ UNCHANGED <<today, fix_history, fx, procs>>

\* A new process: CostOptimizer() reloads both files
Restart ==
    /\ Idle
    /\ Becomes(NewOptimizer(config_file, tracking_file))
    /\ last' = [op |-> "restart"]
    /\ UNCHANGED <<today, fix_history, fx, procs>>

\* Between two invocations the operator edits monthly_budget in the config
\* record; the next invocation loads it
EditBudget ==
    /\ Idle
    /\ config_file.exists
    /\ \E b \in Budgets :
         /\ b # config_file.monthly_budget
         /\ Becomes(NewOptimizer([config_file EXCEPT !.monthly_budget = b],
                                 tracking_file))
    /\ last' = [op |-> "edit_budget"]
    /\ UNCHANGED <<today, fix_history, fx, procs>>

\* The clock: the next day of the month, or the first day of the next month
Ticks == (today.month - 1) + (today.day - 1)

NextDay ==
    /\ Idle
    /\ Ticks < MaxTicks
    /\ today' = [today EXCEPT !.day = @ + 1]
    /\ last' = [op |-> "clock"]
    /\ UNCHANGED <<config_file, tracking_file, monthly_budget, current_mode,
                   tracking_data, fix_history, fx, procs>>

NextMonth ==
    /\ Idle
    /\ Ticks < MaxTicks
    /\ today' = [month |-> today.month + 1, day |-> 1]
    /\ last' = [op |-> "clock"]
    /\ UNCHANGED <<config_file, tracking_file, monthly_budget, current_mode,
                   tracking_data, fix_history, fx, procs>>

Next ==
    \/ AddUsage
    \/ CheckBudget
    \/ SetMode
    \/ SelectModel
    \/ Restart
    \/ EditBudget
    \/ NextDay
    \/ NextMonth

Spec == Init /\ [][Next]_vars

\* The same machine started on a config record written by the operator with
\* a budget of which the Opus event of UsageInputs is 78.6%
WarningBudget == 42

InitWarning ==
    LET self == NewOptimizer([exists |-> TRUE, complete |-> TRUE,
                              monthly_budget |-> WarningBudget,
                              current_mode |-> "normal"],
                             NoTrackingFile)
    IN  /\ monthly_budget = self.monthly_budget
        /\ current_mode = self.current_mode
        /\ tracking_data = self.tracking_data
        /\ config_file = self.config_file
        /\ tracking_file = self.tracking_file
        /\ today = [month |-> 1, day |-> 1]
        /\ fix_history = <<>>
        /\ fx = [pc |-> "idle"]
        /\ procs = NoProcs
        /\ last = [op |-> "init"]

SpecWarning == InitWarning /\ [][Next]_vars

----------------------------------------------------------------------------
(* The pure policies, applied to inputs drawn from bounded sets *)

MaxErrorCount == 25

AllErrorTypes == {"typescript", "test", "eslint", "other"}
\* budget_status["percentage_used"], in tenths of a percent
Percentages == {0, 8, 299, 300, 499, 500, 1000}

\* The optimizer as constructed, or after one manual set_mode
ManualStates ==
    LET new == NewOptimizer(NoConfigFile, NoTrackingFile)
        day1 == [month |-> 1, day |-> 1]
    IN  {new} \cup {set_mode(new, m, "Manual override", day1) : m \in valid_modes}

InitPure ==
    /\ \E self \in ManualStates :
         /\ monthly_budget = self.monthly_budget
         /\ current_mode = self.current_mode
         /\ tracking_data = self.tracking_data
         /\ config_file = self.config_file
         /\ tracking_file = self.tracking_file
    /\ today = [month |-> 1, day |-> 1]
    /\ fix_history = <<>>
    /\ fx = [pc |-> "idle"]
    /\ procs = NoProcs
    /\ last = [op |-> "init"]

\* should_process_error(error_type, severity)
ShouldProcess ==
    /\ \E error_type \in AllErrorTypes, severity \in Severities :
         last' = [op |-> "should_process_error",
                  error_type |-> error_type, severity |-> severity,
                  result |-> should_process_error(Self, error_type, severity)]
    /\ UNCHANGED <<config_file, tracking_file, monthly_budget, current_mode,
                   tracking_data, today, fix_history, fx, procs>>

\* lines 232-253 of select_model_by_budget on (mode, error_count, percentage_used)
SelectTier ==
    /\ \E mode \in valid_modes, error_count \in 0..MaxErrorCount,
          percentage_used \in Percentages :
         LET r == SelectByMode(mode, error_count, percentage_used)
         IN  last' = [op |-> "select_by_mode", mode |-> mode,
                      error_count |-> error_count,
                      percentage_used |-> percentage_used,
                      model |-> r[1], reason |-> r[2]]
    /\ UNCHANGED <<config_file, tracking_file, monthly_budget, current_mode,
                   tracking_data, today, fix_history, fx, procs>>

NextPure ==
    \/ ShouldProcess
    \/ SelectTier

SpecPure == InitPure /\ [][NextPure]_vars

----------------------------------------------------------------------------
(* fix_all_errors.py: one fix_errors pass *)

HistoryCap == 1000

\* ErrorFixer.select_model: (model, price per million in 0.25 dollar steps)
select_model(error_count) ==
    IF error_count < 5 THEN <<Haiku, 1>>
    ELSE IF error_count < 20 THEN <<Sonnet, 12>>
    ELSE <<Sonnet, 12>>

\* CostTracker.add_usage: `pass`; the tracker's data is left as loaded
CostTracker_add_usage(data, tokens, model, action) == data

\* Mutant: the slice keeps the first 1000 records
LastRecords_First(history) ==
    IF Len(history) <= HistoryCap THEN history
    ELSE SubSeq(history, 1, HistoryCap)

\* self.fix_history[-1000:]
LastRecords(history) ==
    IF Len(history) <= HistoryCap THEN history
    ELSE SubSeq(history, Len(history) - HistoryCap + 1, Len(history))

\* _save_fix_history
save_fix_history(history, fixes) == LastRecords(history \o fixes)

\* What the generation service may answer: the text (a JSON object, a JSON
\* array or prose; bare, in a json fence or in a plain fence, the three
\* backquotes of a fence written '''), the number of fixes of a JSON object,
\* and usage.input_tokens + usage.output_tokens
PassErrorCounts == {0, 1, 5, 20}
ResponseTokens == {1000, 2500}
Wrappers == {"none", "json_fence", "fence"}
Bodies == {"object", "array", "prose"}

\* the fixes of a parsed response, tagged with model and timestamp
TaggedFixes(n, model, now) ==
    [i \in 1..n |-> [file |-> "src/index.ts", line |-> i,
                     model |-> model, timestamp |-> now]]

\* message.content[0].text: the body as the service wrote it, bare or fenced
BodyText(body) ==
    CASE body = "object" -> "{...}"
      [] body = "array" -> "[]"
      [] body = "prose" -> "I could not fix these errors."

ResponseText(wrapper, body) ==
    CASE wrapper = "none" -> BodyText(body)
      [] wrapper = "json_fence" -> "'''json " \o BodyText(body) \o " '''"
      [] wrapper = "fence" -> "''' " \o BodyText(body) \o " '''"

\* str(e) of the exception json.loads or the lines after it raise
ParseError(body) ==
    IF body = "prose" THEN "Expecting value: line 1 column 1 (char 0)"
    ELSE "list indices must be integers or slices, not str"

\* Mutant: the summary of the failure result is the bare message
FailureResult_BareMessage(message) ==
    [fixes |-> <<>>,
     summary |-> message,
     error |-> message]

\* the dict returned from the except branch
FailureResult(message) ==
    [fixes |-> <<>>,
     summary |-> "Failed to generate fixes: " \o message,
     error |-> message]

\* lines 309-320: self.client.messages.create(...) is invoked
CallService(pass) == [pass EXCEPT !.pc = "calling", !.api_calls = @ + 1]

\* Mutant: a failed call is made once more before the pass gives up
AfterFailure_Retry(pass) ==
    IF pass.api_calls < 2 THEN CallService(pass) ELSE [pc |-> "idle"]

\* lines 361-367: the except branch returns the failure result
AfterFailure(pass) == [pc |-> "idle"]

\* lines 290-320: up to the call of the generation service
FixErrorsCall ==
    /\ fx.pc = "idle"
    /\ \E n \in PassErrorCounts :
         IF n = 0
         THEN /\ fx' = fx
              /\ last' = [op |-> "fix_errors", total_errors |-> 0,
                          api_calls |-> 0, responded |-> FALSE,
                          mode_at_call |-> config_file.current_mode,
                          ledger_before |-> tracking_file.entries,
                          result |-> [fixes |-> <<>>,
                                      summary |-> "No errors to fix"]]
         ELSE /\ fx' = CallService(
                            [pc |-> "prompt", api_calls |-> 0, total_errors |-> n,
                             model |-> select_model(n)[1],
                             price_per_million |-> select_model(n)[2],
                             mode_at_call |-> config_file.current_mode,
                             ledger_before |-> tracking_file.entries])
              /\ last' = [op |-> "messages_create", model |-> select_model(n)[1]]
    /\ UNCHANGED <<config_file, tracking_file, monthly_budget, current_mode,
                   tracking_data, today, fix_history, procs>>

\* lines 309-320 raise: the service cannot be reached or refuses
FixErrorsApiError ==
    /\ fx.pc = "calling"
    /\ fx' = AfterFailure(fx)
    /\ last' = IF fx'.pc = "idle"
               THEN [op |-> "fix_errors", total_errors |-> fx.total_errors,
                     api_calls |-> fx.api_calls, responded |-> FALSE,
                     mode_at_call |-> fx.mode_at_call,
                     ledger_before |-> fx.ledger_before,
                     result |-> FailureResult("Connection error.")]
               ELSE [op |-> "messages_create", model |-> fx.model]
    /\ UNCHANGED <<config_file, tracking_file, monthly_budget, current_mode,
                   tracking_data, today, fix_history, procs>>

\* lines 322-367: the service answered
FixErrorsReturn ==
    /\ fx.pc = "calling"
    /\ \E wrapper \in Wrappers, body \in Bodies, tokens \in ResponseTokens,
          n \in 0..MaxHistory :
         /\ Len(fix_history) + n <= MaxHistory
         /\ body # "object" => n = 0
         /\ IF body = "object"
            THEN LET fixes == TaggedFixes(n, fx.model, today)
                     data == CostTracker_add_usage(tracking_file.entries, tokens,
                                                   fx.model, "fix_errors")
                 IN  /\ fix_history' = save_fix_history(fix_history, fixes)
                     /\ last' = [op |-> "fix_errors",
                                 total_errors |-> fx.total_errors,
                                 api_calls |-> fx.api_calls, responded |-> TRUE,
                                 body |-> body,
                                 response_text |-> ResponseText(wrapper, body),
                                 reported_tokens |-> tokens,
                                 mode_at_call |-> fx.mode_at_call,
                                 ledger_before |-> fx.ledger_before,
                                 result |-> [fixes |-> fixes,
                                             summary |-> "summary of the response",
                                             model_used |-> fx.model,
                                             tokens_used |-> tokens,
                                             cost |-> tokens * fx.price_per_million,
                                             timestamp |-> today,
                                             total_errors |-> fx.total_errors]]
            ELSE /\ fix_history' = fix_history
                 /\ last' = [op |-> "fix_errors",
                             total_errors |-> fx.total_errors,
                             api_calls |-> fx.api_calls, responded |-> TRUE,
                             body |-> body,
                             response_text |-> ResponseText(wrapper, body),
                             reported_tokens |-> tokens,
                             mode_at_call |-> fx.mode_at_call,
                             ledger_before |-> fx.ledger_before,
                             result |-> FailureResult(ParseError(body))]
    /\ fx' = [pc |-> "idle"]
    /\ UNCHANGED <<config_file, tracking_file, monthly_budget, current_mode,
                   tracking_data, today, procs>>

InitFix == InitPure

NextFix ==
    \/ FixErrorsCall
    \/ FixErrorsApiError
    \/ FixErrorsReturn

SpecFix == InitFix /\ [][NextFix]_vars

----------------------------------------------------------------------------
----------------------------------------------------------------------------
(* update-usage step by step: each open(file, 'w') and each json.dump is a  *)
(* step of its own, and the process can be killed between any two of them.  *)
(* procs[p] holds the position of invocation p and the fields of its own    *)
(* CostOptimizer object; the two files are shared.                          *)

\* the CostOptimizer object of invocation p over the files as they are now
Obj(p) == [monthly_budget |-> procs[p].monthly_budget,
           current_mode   |-> procs[p].current_mode,
           tracking_data  |-> procs[p].tracking_data,
           config_file    |-> config_file,
           tracking_file  |-> tracking_file]

\* main(), update-usage: CostOptimizer() loads the two files
UpdateUsageStart(p) ==
    /\ procs[p].pc = "idle"
    /\ \E u \in UsageInputs :
         LET self == NewOptimizer(config_file, tracking_file)
         IN  /\ Fits(add_usage(self, u[2], u[1], "fix_errors", today))
             /\ config_file' = self.config_file
             /\ procs' = [procs EXCEPT ![p] =
                    [pc             |-> "loaded",
                     monthly_budget |-> self.monthly_budget,
                     current_mode   |-> self.current_mode,
                     tracking_data  |-> self.tracking_data,
                     ledger_before  |-> self.tracking_data,
                     entry          |-> UsageEntry(u[2], u[1], "fix_errors", today)]]
             /\ last' = [op |-> "update_usage_start", tokens_used |-> u[2]]
    /\ UNCHANGED <<tracking_file, monthly_budget, current_mode, tracking_data,
                   today, fix_history, fx>>

\* add_usage lines 122-142 and line 84: the entry is appended in memory and
\* open(tracking_file, 'w') empties the file
AppendUsageAndOpen(p) ==
    /\ procs[p].pc = "loaded"
    /\ procs' = [procs EXCEPT ![p].pc = "dumping_usage",
                              ![p].tracking_data = Append(@, procs[p].entry)]
    /\ tracking_file' = OpenedForWriting(NoTrackingFile)
    /\ last' = [op |-> "open_tracking_file"]
    /\ UNCHANGED <<config_file, monthly_budget, current_mode, tracking_data,
                   today, fix_history, fx>>

\* line 85: json.dump has written the whole ledger and the file is closed
DumpUsage(p) ==
    /\ procs[p].pc = "dumping_usage"
    /\ tracking_file' = save_tracking_data(Obj(p)).tracking_file
    /\ procs' = [procs EXCEPT ![p].pc = "checking"]
    /\ last' = [op |-> "dump_tracking_file"]
    /\ UNCHANGED <<config_file, monthly_budget, current_mode, tracking_data,
                   today, fix_history, fx>>

\* line 146: check_budget_status; when it calls set_mode, current_mode is
\* assigned and open(config_file, 'w') empties the config file (line 68)
Evaluate(p) ==
    /\ procs[p].pc = "checking"
    /\ LET c == check_budget_status(Obj(p), today).self
       IN  IF c.tracking_data = procs[p].tracking_data
           THEN /\ procs' = [procs EXCEPT ![p].pc = "done"]
                /\ config_file' = config_file
           ELSE /\ procs' = [procs EXCEPT
                                ![p] = [pc |-> "dumping_config",
                                        log_entry |-> c.tracking_data[Len(c.tracking_data)]]
                                       @@ [@ EXCEPT !.current_mode = c.current_mode]]
                /\ config_file' = OpenedForWriting(NoConfigFile)
    /\ last' = [op |-> "check_budget_status"]
    /\ UNCHANGED <<tracking_file, monthly_budget, current_mode, tracking_data,
                   today, fix_history, fx>>

\* line 69: json.dump has written the config
DumpConfig(p) ==
    /\ procs[p].pc = "dumping_config"
    /\ config_file' = save_config(Obj(p)).config_file
    /\ procs' = [procs EXCEPT ![p].pc = "config_saved"]
    /\ last' = [op |-> "dump_config_file"]
    /\ UNCHANGED <<tracking_file, monthly_budget, current_mode, tracking_data,
                   today, fix_history, fx>>

\* set_mode lines 201-211: the log entry is appended and the tracking file is
\* opened for writing again
AppendLogAndOpen(p) ==
    /\ procs[p].pc = "config_saved"
    /\ procs' = [procs EXCEPT ![p].pc = "dumping_log",
                              ![p].tracking_data = Append(@, procs[p].log_entry)]
    /\ tracking_file' = OpenedForWriting(NoTrackingFile)
    /\ last' = [op |-> "open_tracking_file"]
    /\ UNCHANGED <<config_file, monthly_budget, current_mode, tracking_data,
                   today, fix_history, fx>>

DumpLog(p) ==
    /\ procs[p].pc = "dumping_log"
    /\ tracking_file' = save_tracking_data(Obj(p)).tracking_file
    /\ procs' = [procs EXCEPT ![p].pc = "done"]
    /\ last' = [op |-> "dump_tracking_file"]
    /\ UNCHANGED <<config_file, monthly_budget, current_mode, tracking_data,
                   today, fix_history, fx>>

\* the invocation returns
UpdateUsageExit(p) ==
    /\ procs[p].pc = "done"
    /\ procs' = [procs EXCEPT ![p] = [pc |-> "idle"]]
    /\ last' = [op |-> "update_usage",
                ledger_before |-> procs[p].ledger_before,
                entry |-> procs[p].entry]
    /\ UNCHANGED <<config_file, tracking_file, monthly_budget, current_mode,
                   tracking_data, today, fix_history, fx>>

\* the process is killed where it stands; its memory is gone, the files stay
\* as they are
Kill(p) ==
    /\ procs[p].pc \notin {"idle", "done"}
    /\ procs' = [procs EXCEPT ![p] = [pc |-> "idle"]]
    /\ last' = [op |-> "kill", at |-> procs[p].pc,
                ledger_before |-> procs[p].ledger_before,
                entry |-> procs[p].entry]
    /\ UNCHANGED <<config_file, tracking_file, monthly_budget, current_mode,
                   tracking_data, today, fix_history, fx>>

NextCrash ==
    \E p \in ProcIds :
        \/ UpdateUsageStart(p)
        \/ AppendUsageAndOpen(p)
        \/ DumpUsage(p)
        \/ Evaluate(p)
        \/ DumpConfig(p)
        \/ AppendLogAndOpen(p)
        \/ DumpLog(p)
        \/ UpdateUsageExit(p)
        \/ Kill(p)

SpecCrash == Init /\ [][NextCrash]_vars

----------------------------------------------------------------------------
(* The fix history near its cap: successful passes on a history that        *)
(* already holds almost HistoryCap records                                  *)

MaxBatch == 3        \* fixes one response may carry
MaxOverflow == 30    \* records that arrive after the history is full

\* the n fixes of a response that follow `arrived` earlier ones; line holds
\* the arrival number of the record
ArrivingFixes(arrived, n, model, now) ==
    [i \in 1..n |-> [file |-> "src/index.ts", line |-> arrived + i,
                     model |-> model, timestamp |-> now]]

InitHistory ==
    /\ \E self \in ManualStates :
         /\ self.tracking_data = <<>>
         /\ monthly_budget = self.monthly_budget
         /\ current_mode = self.current_mode
         /\ tracking_data = self.tracking_data
         /\ config_file = self.config_file
         /\ tracking_file = self.tracking_file
    /\ today = [month |-> 1, day |-> 1]
    /\ fx = [pc |-> "idle"]
    /\ procs = NoProcs
    /\ \E arrived \in (HistoryCap - MaxBatch)..HistoryCap :
         /\ fix_history = ArrivingFixes(0, arrived, Haiku, today)
         /\ last = [op |-> "init", arrived |-> arrived]

\* lines 346-350 of a pass whose response parsed: the fixes are tagged and
\* _save_fix_history(fixes) extends, trims and writes the history
SaveFixHistory ==
    /\ \E n \in 0..MaxBatch :
         /\ last.arrived + n <= HistoryCap + MaxOverflow
         /\ fix_history' = save_fix_history(
                               fix_history,
                               ArrivingFixes(last.arrived, n, Haiku, today))
         /\ last' = [op |-> "save_fix_history", n |-> n,
                     arrived |-> last.arrived + n]
    /\ UNCHANGED <<config_file, tracking_file, monthly_budget, current_mode,
                   tracking_data, today, fx, procs>>

NextHistory == SaveFixHistory

SpecHistory == InitHistory /\ [][NextHistory]_vars

----------------------------------------------------------------------------
(* fix_all_errors.py: ErrorFixer.prioritize_errors *)

MaxPerFile == 9      \* records one file may have in the input
MaxCap == 5          \* largest max_fixes
DefaultMaxFixes == 5 \* max_fixes of fix_errors and of --max-fixes

common_errors == {"TS2339", "TS2345", "TS7006", "no-unused-vars",
                  "prettier/prettier"}

\* lines 188-209: the priority_score of a record
priority_score(error) ==
    (IF error.type = "typescript" THEN 30
     ELSE IF error.type = "test" THEN 20
     ELSE IF error.type = "eslint" THEN 10
     ELSE 0)
    + (IF error.severity = "error" THEN 20 ELSE 0)
    + (IF error.code \in common_errors THEN 10 ELSE 0)

\* errors.sort(key=priority_score, reverse=True): stable, so the records of
\* one score keep their order; the scores are the multiples of 10 up to 60
RECURSIVE SortFrom(_, _)
SortFrom(errors, score) ==
    IF score < 0 THEN <<>>
    ELSE LET HasScore(e) == priority_score(e) = score
         IN  SelectSeq(errors, HasScore) \o SortFrom(errors, score - 10)

SortedByScore(errors) == SortFrom(errors, 60)

\* errors[:n]
Take(s, n) == SubSeq(s, 1, IF n < Len(s) THEN n ELSE Len(s))

\* the keys of grouped_errors, in the order in which they were inserted
RECURSIVE FileKeys(_, _)
FileKeys(errors, seen) ==
    IF errors = <<>> THEN <<>>
    ELSE IF Head(errors).file \in seen THEN FileKeys(Tail(errors), seen)
    ELSE <<Head(errors).file>>
         \o FileKeys(Tail(errors), seen \cup {Head(errors).file})

\* grouped_errors[file_key]
FileErrors(errors, file_key) ==
    LET InFile(e) == e.file = file_key
    IN  SelectSeq(errors, InFile)

\* Mutant: the whole group of each file is selected
RECURSIVE SelectFromGroups_WholeGroups(_, _, _, _)
SelectFromGroups_WholeGroups(keys, top, selected, max_fixes) ==
    IF keys = <<>> THEN selected
    ELSE LET extended == selected \o FileErrors(top, Head(keys))
         IN  IF Len(extended) >= max_fixes THEN extended
             ELSE SelectFromGroups_WholeGroups(Tail(keys), top, extended,
                                               max_fixes)

\* Mutant: one record of each group is selected
RECURSIVE SelectFromGroups_OnePerFile(_, _, _, _)
SelectFromGroups_OnePerFile(keys, top, selected, max_fixes) ==
    IF keys = <<>> THEN selected
    ELSE LET extended == selected \o Take(FileErrors(top, Head(keys)), 1)
         IN  IF Len(extended) >= max_fixes THEN extended
             ELSE SelectFromGroups_OnePerFile(Tail(keys), top, extended,
                                              max_fixes)

\* lines 220-225: two records of each group, until max_fixes are selected
RECURSIVE SelectFromGroups(_, _, _, _)
SelectFromGroups(keys, top, selected, max_fixes) ==
    IF keys = <<>> THEN selected
    ELSE LET extended == selected \o Take(FileErrors(top, Head(keys)), 2)
         IN  IF Len(extended) >= max_fixes THEN extended
             ELSE SelectFromGroups(Tail(keys), top, extended, max_fixes)

\* Mutant: the working list is errors[:max_fixes]
prioritize_errors_NoSurplus(errors, max_fixes) ==
    LET top == Take(SortedByScore(errors), max_fixes)
    IN  Take(SelectFromGroups(FileKeys(top, {}), top, <<>>, max_fixes),
             max_fixes)

\* prioritize_errors(errors, max_fixes) for max_fixes >= 0
prioritize_errors(errors, max_fixes) ==
    LET top == Take(SortedByScore(errors), max_fixes * 3)
    IN  Take(SelectFromGroups(FileKeys(top, {}), top, <<>>, max_fixes),
             max_fixes)

\* The inputs: for each of four files a number of records, all of one kind,
\* laid out file after file or one record of each file in turn
Files == <<"src/a.ts", "src/b.ts", "src/c.ts", "src/d.ts">>
PerFile == {0, 1, 3, 4, 5, MaxPerFile}
Kinds == {[type |-> "typescript", severity |-> "error", code |-> "TS2339"],
          [type |-> "eslint", severity |-> "warning", code |-> "no-console"]}
Layouts == {"blocks", "turns"}

ErrorRecord(k, line, kind) ==
    [type |-> kind.type, file |-> Files[k], line |-> line,
     severity |-> kind.severity, code |-> kind.code]

RECURSIVE Blocks(_, _, _)
Blocks(counts, kinds, k) ==
    IF k > Len(Files) THEN <<>>
    ELSE [i \in 1..counts[k] |-> ErrorRecord(k, i, kinds[k])]
         \o Blocks(counts, kinds, k + 1)

RECURSIVE Turns(_, _, _)
Turns(counts, kinds, line) ==
    IF \A k \in 1..Len(Files) : counts[k] < line THEN <<>>
    ELSE LET Present(e) == counts[CHOOSE k \in 1..Len(Files) : Files[k] = e.file]
                           >= line
         IN  SelectSeq([k \in 1..Len(Files) |-> ErrorRecord(k, line, kinds[k])],
                       Present)
             \o Turns(counts, kinds, line + 1)

ErrorList(counts, kinds, layout) ==
    IF layout = "blocks" THEN Blocks(counts, kinds, 1)
    ELSE Turns(counts, kinds, 1)

\* the error list collected by main() and --max-fixes
InitPrio ==
    /\ \E self \in ManualStates :
         /\ self.tracking_data = <<>>
         /\ monthly_budget = self.monthly_budget
         /\ current_mode = self.current_mode
         /\ tracking_data = self.tracking_data
         /\ config_file = self.config_file
         /\ tracking_file = self.tracking_file
    /\ today = [month |-> 1, day |-> 1]
    /\ fix_history = <<>>
    /\ fx = [pc |-> "idle"]
    /\ procs = NoProcs
    /\ \E counts \in [1..Len(Files) -> PerFile],
          kinds \in [1..Len(Files) -> Kinds],
          layout \in Layouts, max_fixes \in 0..MaxCap :
         last = [op |-> "errors", max_fixes |-> max_fixes,
                 errors |-> ErrorList(counts, kinds, layout)]

\* prioritize_errors(errors, max_fixes)
PrioritizeErrors ==
    /\ last.op = "errors"
    /\ last' = [op |-> "prioritize_errors", errors |-> last.errors,
                max_fixes |-> last.max_fixes,
                batch |-> prioritize_errors(last.errors, last.max_fixes)]
    /\ UNCHANGED <<config_file, tracking_file, monthly_budget, current_mode,
                   tracking_data, today, fix_history, fx, procs>>

NextPrio == PrioritizeErrors

SpecPrio == InitPrio /\ [][NextPrio]_vars

----------------------------------------------------------------------------
(* One month of usage events: from mode normal and an empty ledger, under   *)
(* any of the budgets, only add_usage runs (each in the running process or  *)
(* in a new one) and the days of the month pass                             *)

MaxMonthEntries == 5    \* entries the ledger of the month may hold

InitMonth ==
    /\ \E b \in Budgets \cup {WarningBudget} :
         LET self == NewOptimizer([exists |-> TRUE, complete |-> TRUE,
                                   monthly_budget |-> b,
                                   current_mode |-> "normal"],
                                  NoTrackingFile)
         IN  /\ monthly_budget = self.monthly_budget
             /\ current_mode = self.current_mode
             /\ tracking_data = self.tracking_data
             /\ config_file = self.config_file
             /\ tracking_file = self.tracking_file
    /\ today = [month |-> 1, day |-> 1]
    /\ fix_history = <<>>
    /\ fx = [pc |-> "idle"]
    /\ procs = NoProcs
    /\ last = [op |-> "init"]

AddUsageInMonth == AddUsageWithin(MaxMonthEntries)

NextMonthOfUsage ==
    \/ AddUsageInMonth
    \/ Restart
    \/ NextDay

SpecMonth == InitMonth /\ [][NextMonthOfUsage]_vars

----------------------------------------------------------------------------
(* Two runs of select_model_by_budget, side by side: two optimizers, each   *)
(* after up to two earlier operations of its own, are asked for a model on  *)
(* the same day with the same error_count                                   *)

Yesterday == [month |-> 1, day |-> 1]
SelectionDay == [month |-> 1, day |-> 2]
LastMonth == [month |-> 0, day |-> 28]

\* the optimizers a run may start from: new, under one of the budgets
NewOptimizers ==
    {NewOptimizer([exists |-> TRUE, complete |-> TRUE, monthly_budget |-> b,
                   current_mode |-> "normal"], NoTrackingFile) :
         b \in {DefaultBudget, WarningBudget}}

\* the states one operation at date `now` leads to
AfterOperation(states, dates) ==
    UNION {{add_usage(s, u[2], u[1], "fix_errors", now) : u \in UsageInputs}
           \cup {set_mode(s, m, "Manual override", now) : m \in valid_modes}
           \cup {check_budget_status(s, now).self} :
               s \in states, now \in dates}

EarlierStates ==
    LET one == AfterOperation(NewOptimizers, {LastMonth, Yesterday, SelectionDay})
        two == AfterOperation(one, {SelectionDay})
    IN  NewOptimizers \cup one \cup two

InitTwoRuns ==
    /\ \E self \in NewOptimizers :
         /\ self.monthly_budget = DefaultBudget
         /\ monthly_budget = self.monthly_budget
         /\ current_mode = self.current_mode
         /\ tracking_data = self.tracking_data
         /\ config_file = self.config_file
         /\ tracking_file = self.tracking_file
    /\ today = SelectionDay
    /\ fix_history = <<>>
    /\ fx = [pc |-> "idle"]
    /\ procs = NoProcs
    /\ \E a \in EarlierStates, b \in EarlierStates, error_count \in {4, 10, 25} :
         last = [op |-> "two_states", a |-> a, b |-> b,
                 error_count |-> error_count]

\* select_model_by_budget(error_count) on each of the two optimizers
SelectInBoth ==
    /\ last.op = "two_states"
    /\ last' = [op |-> "select_in_both", a |-> last.a, b |-> last.b,
                error_count |-> last.error_count,
                result_a |-> select_model_by_budget(last.a, last.error_count,
                                                    today).result,
                result_b |-> select_model_by_budget(last.b, last.error_count,
                                                    today).result]
    /\ UNCHANGED <<config_file, tracking_file, monthly_budget, current_mode,
                   tracking_data, today, fix_history, fx, procs>>

NextTwoRuns == SelectInBoth

SpecTwoRuns == InitTwoRuns /\ [][NextTwoRuns]_vars

-----------------------------------------------------------------------------
(* prioritize_errors on short lists of any composition: records of two      *)
(* files, of two lines and of two kinds in any order, the same record       *)
(* possibly more than once                                                  *)

MaxListLen == 4      \* longest error list
MaxSmallCap == 3     \* largest max_fixes

SmallRecords == {ErrorRecord(k, line, kind) :
                    k \in {1, 2}, line \in {1, 2}, kind \in Kinds}

ErrorLists == UNION {[1..n -> SmallRecords] : n \in 0..MaxListLen}

\* the error list collected by main() and --max-fixes
InitAnyList ==
    /\ LET self == NewOptimizer(NoConfigFile, NoTrackingFile)
       IN  /\ monthly_budget = self.monthly_budget
           /\ current_mode = self.current_mode
           /\ tracking_data = self.tracking_data
           /\ config_file = self.config_file
           /\ tracking_file = self.tracking_file
    /\ today = [month |-> 1, day |-> 1]
    /\ fix_history = <<>>
    /\ fx = [pc |-> "idle"]
    /\ procs = NoProcs
    /\ \E errors \in ErrorLists, max_fixes \in 0..MaxSmallCap :
         last = [op |-> "errors", max_fixes |-> max_fixes, errors |-> errors]

NextAnyList == PrioritizeErrors

SpecAnyList == InitAnyList /\ [][NextAnyList]_vars

-----------------------------------------------------------------------------
(* The three report parsers. A report is the content of the file the parser *)
(* reads: for tsc the lines, for ESLint and the test runner the decoded     *)
(* JSON document. Every entry carries the mark well_formed of the tool that *)
(* wrote the report; the parsers do not read it.                            *)

MaxReportLen == 2     \* entries (lines, file results, test files) of a report
MaxMessages == 2      \* messages of one file result, assertions of one test file

\* int(text): the value of a decimal text, defined for these texts only
Digits == ("12" :> 12) @@ ("5" :> 5) @@ ("7" :> 7) @@ ("1" :> 1)

\* lines 108-113: the error code of a message "error TS<digits>: ..."; the
\* segments are the parts of the line after the third colon
ErrorCodes == ("error TS2339" :> "TS2339") @@ ("error TS2345" :> "TS2345")
ExtractCode(segments) ==
    IF Len(segments) >= 2 /\ segments[1] \in DOMAIN ErrorCodes
    THEN ErrorCodes[segments[1]]
    ELSE ""

RECURSIVE Join(_)
Join(segments) ==
    IF Len(segments) = 1 THEN segments[1]
    ELSE segments[1] \o ":" \o Join(Tail(segments))

\* the lines of a tsc report: marker is the test "error TS" in line, parts is
\* line.split(":"), written without the blanks that strip() and int() drop
TsLines ==
    {[well_formed |-> TRUE, marker |-> TRUE,
      parts |-> <<"src/a.ts", "12", "5", "error TS2339", " Property x is missing">>],
     [well_formed |-> TRUE, marker |-> TRUE,
      parts |-> <<"src/b.ts", "7", "1", "error TS2345", " Argument is not assignable">>],
     [well_formed |-> FALSE, marker |-> TRUE,
      parts |-> <<"src/a.ts", "twelve", "5", "error TS2339", " Property x is missing">>],
     [well_formed |-> FALSE, marker |-> TRUE,
      parts |-> <<"src/a.ts(12,5)", "error TS2339", " Property x is missing">>],
     [well_formed |-> FALSE, marker |-> FALSE,
      parts |-> <<"Found 2 errors.">>]}

\* lines 101-125: the body of the try block for one line; raised when int()
\* rejects the text
TsRecord(line) ==
    IF line.parts[2] \notin DOMAIN Digits \/ line.parts[3] \notin DOMAIN Digits
    THEN [raised |-> TRUE]
    ELSE [raised |-> FALSE,
          error |-> [type |-> "typescript",
                     file |-> line.parts[1],
                     line |-> Digits[line.parts[2]],
                     column |-> Digits[line.parts[3]],
                     message |-> Join(SubSeq(line.parts, 4, Len(line.parts))),
                     code |-> ExtractCode(SubSeq(line.parts, 4, Len(line.parts))),
                     severity |-> "error"]]

\* parse_typescript_errors: the loop over the lines, except: continue
RECURSIVE parse_typescript_errors(_)
parse_typescript_errors(lines) ==
    IF lines = <<>> THEN <<>>
    ELSE LET line == Head(lines)
             rest == parse_typescript_errors(Tail(lines))
         IN  IF line.marker /\ Len(line.parts) >= 4
             THEN IF TsRecord(line).raised THEN rest
                  ELSE <<TsRecord(line).error>> \o rest
             ELSE rest

\* the messages of an ESLint file result; a message that is not an object
\* (null) has no .get
EslintMessages ==
    {[well_formed |-> TRUE, object |-> TRUE, line |-> 3, column |-> 1,
      message |-> "x is defined but never used", ruleId |-> "no-unused-vars",
      severity |-> 2],
     [well_formed |-> TRUE, object |-> TRUE, line |-> 9, column |-> 5,
      message |-> "Unexpected console statement", ruleId |-> "no-console",
      severity |-> 1],
     [well_formed |-> FALSE, object |-> FALSE]}

\* lines 142-150: the record of one message
EslintRecord(file_path, message) ==
    [type |-> "eslint", file |-> file_path, line |-> message.line,
     column |-> message.column, message |-> message.message,
     code |-> message.ruleId,
     severity |-> IF message.severity = 2 THEN "error" ELSE "warning"]

\* lines 140-150: the loops over file results and messages inside the one try
\* block; the first entry that raises ends both loops
RECURSIVE EslintMessagesLoop(_, _, _)
EslintMessagesLoop(file_path, messages, errors) ==
    IF messages = <<>> THEN [errors |-> errors, raised |-> FALSE]
    ELSE IF ~Head(messages).object THEN [errors |-> errors, raised |-> TRUE]
    ELSE EslintMessagesLoop(file_path, Tail(messages),
             Append(errors, EslintRecord(file_path, Head(messages))))

RECURSIVE EslintResultsLoop(_, _)
EslintResultsLoop(data, errors) ==
    IF data = <<>> THEN errors
    ELSE IF ~Head(data).object THEN errors
    ELSE LET inner == EslintMessagesLoop(Head(data).filePath,
                                         Head(data).messages, errors)
         IN  IF inner.raised THEN inner.errors
             ELSE EslintResultsLoop(Tail(data), inner.errors)

\* parse_eslint_errors: except: pass, then return errors
parse_eslint_errors(data) == EslintResultsLoop(data, <<>>)

\* the assertion results of a test file
Assertions ==
    {[well_formed |-> TRUE, object |-> TRUE, status |-> "failed",
      failureMessages |-> <<"expected 1 to be 2">>, title |-> "adds"],
     [well_formed |-> TRUE, object |-> TRUE, status |-> "passed",
      failureMessages |-> <<>>, title |-> "subtracts"],
     [well_formed |-> FALSE, object |-> TRUE, status |-> "failed",
      failureMessages |-> <<>>, title |-> "divides"],
     [well_formed |-> FALSE, object |-> FALSE]}

\* lines 173-181: the record of one failed assertion
TestRecord(file_path, assertion) ==
    [type |-> "test", file |-> file_path, line |-> 0, column |-> 0,
     message |-> assertion.failureMessages[1], code |-> assertion.title,
     severity |-> "error"]

\* lines 168-181: the loops over test files and assertions inside the one try
\* block; failureMessages[0] of an empty list raises
RECURSIVE AssertionsLoop(_, _, _)
AssertionsLoop(file_path, assertions, errors) ==
    IF assertions = <<>> THEN [errors |-> errors, raised |-> FALSE]
    ELSE LET assertion == Head(assertions)
         IN  IF ~assertion.object THEN [errors |-> errors, raised |-> TRUE]
             ELSE IF assertion.status # "failed"
             THEN AssertionsLoop(file_path, Tail(assertions), errors)
             ELSE IF assertion.failureMessages = <<>>
             THEN [errors |-> errors, raised |-> TRUE]
             ELSE AssertionsLoop(file_path, Tail(assertions),
                      Append(errors, TestRecord(file_path, assertion)))

RECURSIVE TestFilesLoop(_, _)
TestFilesLoop(test_results, errors) ==
    IF test_results = <<>> THEN errors
    ELSE IF ~Head(test_results).object THEN errors
    ELSE LET inner == AssertionsLoop(Head(test_results).name,
                                     Head(test_results).assertionResults,
                                     errors)
         IN  IF inner.raised THEN inner.errors
             ELSE TestFilesLoop(Tail(test_results), inner.errors)

\* parse_test_errors, of a document whose "testResults" is test_results:
\* except: pass, then return errors
parse_test_errors(test_results) == TestFilesLoop(test_results, <<>>)

\* The reports: up to MaxReportLen lines of tsc; up to MaxReportLen file
\* results or test files, the k-th one of Files[k] with up to MaxMessages
\* messages or assertions, or not an object
SeqsUpTo(S, n) == UNION {[1..m -> S] : m \in 0..n}

Entries(k, items, path_key, items_key) ==
    {[well_formed |-> FALSE, object |-> FALSE]}
    \cup {(path_key :> Files[k]) @@ (items_key :> m)
          @@ [well_formed |-> TRUE, object |-> TRUE] :
              m \in SeqsUpTo(items, MaxMessages)}

\* the documents of n entries
RECURSIVE JsonReportsOf(_, _, _, _)
JsonReportsOf(n, items, path_key, items_key) ==
    IF n = 0 THEN {<<>>}
    ELSE {Append(data, entry) :
              data \in JsonReportsOf(n - 1, items, path_key, items_key),
              entry \in Entries(n, items, path_key, items_key)}

JsonReports(items, path_key, items_key) ==
    UNION {JsonReportsOf(n, items, path_key, items_key) : n \in 0..MaxReportLen}

\* the report files main() hands to the parsers
InitParse ==
    /\ LET self == NewOptimizer(NoConfigFile, NoTrackingFile)
       IN  /\ monthly_budget = self.monthly_budget
           /\ current_mode = self.current_mode
           /\ tracking_data = self.tracking_data
           /\ config_file = self.config_file
           /\ tracking_file = self.tracking_file
    /\ today = [month |-> 1, day |-> 1]
    /\ fix_history = <<>>
    /\ fx = [pc |-> "idle"]
    /\ procs = NoProcs
    /\ \/ \E report \in SeqsUpTo(TsLines, MaxReportLen) :
            last = [op |-> "report", tool |-> "typescript", report |-> report]
       \/ \E report \in JsonReports(EslintMessages, "filePath",
                                          "messages") :
            last = [op |-> "report", tool |-> "eslint", report |-> report]
       \/ \E report \in JsonReports(Assertions, "name",
                                          "assertionResults") :
            last = [op |-> "report", tool |-> "test", report |-> report]

Parsed(errors) ==
    /\ last' = [op |-> "parse", tool |-> last.tool, report |-> last.report,
                errors |-> errors]
    /\ UNCHANGED <<config_file, tracking_file, monthly_budget, current_mode,
                   tracking_data, today, fix_history, fx, procs>>

ParseTypescriptErrors ==
    /\ last.op = "report" /\ last.tool = "typescript"
    /\ Parsed(parse_typescript_errors(last.report))

ParseEslintErrors ==
    /\ last.op = "report" /\ last.tool = "eslint"
    /\ Parsed(parse_eslint_errors(last.report))

ParseTestErrors ==
    /\ last.op = "report" /\ last.tool = "test"
    /\ Parsed(parse_test_errors(last.report))

NextParse == ParseTypescriptErrors \/ ParseEslintErrors \/ ParseTestErrors

SpecParse == InitParse /\ [][NextParse]_vars

-----------------------------------------------------------------------------
(* Two update-usage invocations at once: two processes, each running the    *)
(* steps of update-usage once over the shared files, in any interleaving    *)

RaceProcs == {1, 2}

InitRace ==
    /\ LET self == NewOptimizer(NoConfigFile, NoTrackingFile)
       IN  /\ monthly_budget = self.monthly_budget
           /\ current_mode = self.current_mode
           /\ tracking_data = self.tracking_data
           /\ config_file = self.config_file
           /\ tracking_file = self.tracking_file
    /\ today = [month |-> 1, day |-> 1]
    /\ fix_history = <<>>
    /\ fx = [pc |-> "idle"]
    /\ procs = [p \in RaceProcs |-> [pc |-> "idle"]]
    /\ last = [op |-> "init"]

\* the invocation returns; alone tells that no other invocation was under
\* way at that moment
RaceExit(p) ==
    /\ procs[p].pc = "done"
    /\ procs' = [procs EXCEPT ![p] =
           [pc    |-> "exited",
            entry |-> procs[p].entry,
            alone |-> \A q \in RaceProcs \ {p} :
                          procs[q].pc \in {"idle", "exited"}]]
    /\ last' = [op |-> "update_usage",
                ledger_before |-> procs[p].ledger_before,
                entry |-> procs[p].entry]
    /\ UNCHANGED <<config_file, tracking_file, monthly_budget, current_mode,
                   tracking_data, today, fix_history, fx>>

NextRace ==
    \E p \in RaceProcs :
        \/ UpdateUsageStart(p)
        \/ AppendUsageAndOpen(p)
        \/ DumpUsage(p)
        \/ Evaluate(p)
        \/ DumpConfig(p)
        \/ AppendLogAndOpen(p)
        \/ DumpLog(p)
        \/ RaceExit(p)

SpecRace == InitRace /\ [][NextRace]_vars

(* Properties *)

Rank(mode) == CASE mode = "normal" -> 0 [] mode = "economy" -> 1
                [] mode = "emergency" -> 2

MonthlyUsage == get_current_month_usage(Self, today)

\* monthly spend is at least pct percent of monthly_budget
SpendAtLeast(pct) == PercentageAtLeast(MonthlyUsage, monthly_budget, pct * 100)

AutomaticOps == {"add_usage", "check_budget_status", "select_model_by_budget"}

\* C1: after add_usage and after check_budget_status, a monthly spend of at
\* least 95% of the budget means the mode is emergency, in memory and in the
\* config record.
C1_EmergencyAtNinetyFivePercent ==
    (last.op \in {"add_usage", "check_budget_status"} /\ SpendAtLeast(95))
        => (current_mode = "emergency" /\ config_file.current_mode = "emergency")

C1_Witness ==
    /\ last.op = "add_usage"
    /\ last.pre_mode = "normal"
    /\ SpendAtLeast(95)
    /\ config_file.current_mode = "emergency"

\* C2: an evaluation that finds the spend at 80% or more and below 95% of the
\* budget, starting in normal or economy, ends in economy.
C2_EconomyBetweenEightyAndNinetyFive ==
    (/\ last.op \in AutomaticOps
     /\ last.pre_mode \in {"normal", "economy"}
     /\ SpendAtLeast(80)
     /\ ~SpendAtLeast(95))
        => current_mode = "economy"

C4_ShouldProcessTruthTable ==
    last.op = "should_process_error" =>
        last.result =
            CASE current_mode = "normal" -> TRUE
              [] current_mode = "economy" ->
                    /\ last.error_type \in {"typescript", "test"}
                    /\ last.severity \in {"error", "critical"}
              [] current_mode = "emergency" -> FALSE

C4_Witness ==
    /\ last.op = "should_process_error"
    /\ current_mode = "economy"
    /\ last.error_type = "test"
    /\ last.severity = "critical"
    /\ last.result = TRUE

\* C5 as stated: in emergency mode select_model_by_budget refuses, with the
\* reason "budget exhausted".
C5_EmergencyRefusesBudgetExhausted ==
    (last.op = "select_model_by_budget" /\ current_mode = "emergency")
        => (last.model = NoModel /\ last.reason = "budget exhausted")

\* C5 as amended: when the mode is emergency once select_model_by_budget has
\* re-evaluated the budget, it returns no model, and the reason is
\* "Budget limit reached - emergency mode", for every error count.
C5_EmergencyRefuses ==
    (last.op = "select_model_by_budget" /\ current_mode = "emergency")
        => (/\ last.model = NoModel
            /\ last.reason = "Budget limit reached - emergency mode")

C5_Witness ==
    /\ last.op = "select_model_by_budget"
    /\ current_mode = "emergency"
    /\ last.error_count = 25
    /\ last.model = NoModel

C8_NoGenerationCallInEmergency ==
    ~(fx.pc = "calling" /\ config_file.current_mode = "emergency")

\* C9: after a pass in which the service answered with a token count, the
\* persisted ledger is the ledger before the pass plus one usage event whose
\* tokens_used is the count reported.
C9_PassRecordsOneUsageEvent ==
    (last.op = "fix_errors" /\ last.responded) =>
        /\ tracking_file.exists
        /\ Len(tracking_file.entries) = Len(last.ledger_before) + 1
        /\ SubSeq(tracking_file.entries, 1, Len(last.ledger_before))
              = last.ledger_before
        /\ Get(tracking_file.entries[Len(tracking_file.entries)],
               "tokens_used", -1) = last.reported_tokens

\* C10: right after add_usage records an event of cost c, today's sum and
\* this month's sum are each c more than before the call.
C10_UsageCountedOnce ==
    last.op = "add_usage" =>
        /\ get_daily_usage(Self, today) = last.pre_daily + last.cost
        /\ get_current_month_usage(Self, today) = last.pre_monthly + last.cost

C10_Witness ==
    /\ last.op = "add_usage"
    /\ last.cost > 0
    /\ last.pre_daily > 0
    /\ last.pre_monthly > last.pre_daily
    /\ Len(tracking_data) = MaxEntries

----------------------------------------------------------------------------
(* The ledger across operations and restarts *)

IsPrefix(s, t) ==
    /\ Len(s) <= Len(t)
    /\ \A i \in 1..Len(s) : t[i] = s[i]

\* C11: the ledger is append-only: over every step of add_usage,
\* check_budget_status, set_mode, select_model_by_budget, and over every
\* restart that reloads it, the ledger before the step is a prefix of the
\* ledger after it, in memory and in the tracking file; no entry is removed,
\* reordered or modified.
C11_LedgerAppendOnly ==
    [][/\ IsPrefix(tracking_data, tracking_data')
       /\ IsPrefix(tracking_file.entries, tracking_file'.entries)]_vars

\* a restart has reloaded a ledger that holds usage events and logged mode
\* changes, and kept all of it
C11_Witness ==
    /\ last.op = "restart"
    /\ Len(tracking_data) = MaxEntries
    /\ tracking_file.entries = tracking_data
    /\ \E i \in 1..Len(tracking_data) : tracking_data[i].action = "mode_change"
    /\ \E i \in 1..Len(tracking_data) : tracking_data[i].action # "mode_change"

\* what the next CostOptimizer() reads from the tracking file
PersistedLedger == NewOptimizer(config_file, tracking_file).tracking_data

\* C12: when the process is killed while add_usage is writing the ledger, the
\* ledger the next process reads is the one persisted before the call, or that
\* one followed by the new entry.
C12_KilledWriteKeepsOldOrNew ==
    (last.op = "kill" /\ last.at = "dumping_usage")
        => \/ PersistedLedger = last.ledger_before
           \/ PersistedLedger = Append(last.ledger_before, last.entry)

\* C13: set_mode(mode, reason) sets current_mode to mode, persists it, and
\* appends exactly one mode_change entry whose old_mode is the mode in force
\* before the call, whose new_mode is mode and whose reason is reason.
C13_SetModeLogsOldAndNewMode ==
    [][last'.op = "set_mode" =>
          /\ current_mode' = last'.mode
          /\ config_file'.current_mode = last'.mode
          /\ tracking_data' =
                 Append(tracking_data,
                        [date |-> today, action |-> "mode_change",
                         old_mode |-> current_mode, new_mode |-> last'.mode,
                         reason |-> last'.reason])
          /\ tracking_file'.entries = tracking_data']_vars

\* C14: a pass of fix_errors over a non-empty error list invokes the
\* generation service exactly once: while the call is in flight it is the
\* first call of the pass, and when the pass returns, with fixes or with the
\* failure result, one call was made; a failed call is not retried.
C14_OneServiceCallPerPass ==
    /\ fx.pc = "calling" => fx.api_calls = 1
    /\ (last.op = "fix_errors" /\ last.total_errors > 0) => last.api_calls = 1

\* a pass over a non-empty list whose call failed has returned the failure
\* result
C14_Witness ==
    /\ last.op = "fix_errors"
    /\ last.total_errors > 0
    /\ ~last.responded
    /\ last.result.fixes = <<>>
    /\ fx.pc = "idle"

\* C15: after any sequence of successful passes the fix history holds at most
\* 1000 records and is exactly the most recent ones in arrival order: with
\* `arrived` records arrived so far it holds the records numbered
\* arrived - Len + 1 .. arrived, and all of them while arrived <= 1000.
C15_HistoryIsTheMostRecentThousand ==
    last.op \in {"init", "save_fix_history"} =>
        /\ Len(fix_history) <= HistoryCap
        /\ Len(fix_history) = IF last.arrived <= HistoryCap
                              THEN last.arrived ELSE HistoryCap
        /\ \A i \in 1..Len(fix_history) :
               fix_history[i].line = last.arrived - Len(fix_history) + i

\* a pass has added several fixes to a full history and the oldest were
\* evicted
C15_Witness ==
    /\ last.op = "save_fix_history"
    /\ last.n >= 2
    /\ last.arrived > HistoryCap + last.n
    /\ Len(fix_history) = HistoryCap
    /\ fix_history[1].line > 1
    /\ fix_history[HistoryCap].line = last.arrived

\* the files of the records of a list, and the records of one file in it
FilesOf(errors) == {errors[i].file : i \in 1..Len(errors)}
CountIn(errors, file_key) == Len(FileErrors(errors, file_key))

\* C16: for every input list and every cap max_fixes >= 0 the batch returned
\* by prioritize_errors has at most max_fixes records and at most 2 records of
\* any one file.
C16_BatchWithinCapAndTwoPerFile ==
    last.op = "prioritize_errors" =>
        /\ Len(last.batch) <= last.max_fixes
        /\ \A f \in FilesOf(last.batch) : CountIn(last.batch, f) <= 2

\* a batch filled to a cap of 5 from files that have more than two records
\* each
C16_Witness ==
    /\ last.op = "prioritize_errors"
    /\ last.max_fixes = MaxCap
    /\ Len(last.batch) = last.max_fixes
    /\ \E f \in FilesOf(last.batch) :
         CountIn(last.batch, f) = 2 /\ CountIn(last.errors, f) > 2

\* the input has at least four files with three or more records each, and
\* the cap is 5
FourFilesOfThree ==
    /\ last.op = "prioritize_errors"
    /\ last.max_fixes = DefaultMaxFixes
    /\ Cardinality({f \in FilesOf(last.errors) : CountIn(last.errors, f) >= 3})
           >= 4

\* C17 (as stated): for any input with cap 5 in which each of 4 distinct
\* files has at least 3 records, the batch holds records of at least 3
\* distinct files.
C17_BreadthForAnyInput ==
    FourFilesOfThree => Cardinality(FilesOf(last.batch)) >= 3

\* C17 (amended): the same for inputs of at most 3 * cap = 15 records, all of
\* which are then in the working list errors[:max_fixes * 3].
C17_BreadthWithinWorkingList ==
    (FourFilesOfThree /\ Len(last.errors) <= 3 * last.max_fixes)
        => Cardinality(FilesOf(last.batch)) >= 3

\* fifteen records, five of them of one file, and a batch of three files
C17_Witness ==
    /\ FourFilesOfThree
    /\ Len(last.errors) = 3 * last.max_fixes
    /\ \E f \in FilesOf(last.errors) : CountIn(last.errors, f) = 5
    /\ Cardinality(FilesOf(last.batch)) = 3

\* C18: check-budget exits with code 1 whenever the mode is emergency at the
\* end of the budget check, also when this check is the one that moved the
\* mode to emergency.
C18_CheckBudgetExitsOneInEmergency ==
    (last.op = "check_budget_status" /\ current_mode = "emergency")
        => last.exit_code = 1

\* C19: when the budget status is evaluated with the spend at 75% or more and
\* below 80% of the budget, the mode is left as it was and the status
\* returned is "warning".
C19_WarningBandLeavesMode ==
    (last.op \in AutomaticOps /\ SpendAtLeast(75) /\ ~SpendAtLeast(80))
        => /\ current_mode = last.pre_mode
           /\ last.op = "check_budget_status" => last.status.status = "warning"

\* the new_mode of the mode changes logged in the ledger, in order
LoggedModes ==
    LET IsModeChange(e) == e.action = "mode_change"
        changes == SelectSeq(tracking_data, IsModeChange)
    IN  [i \in 1..Len(changes) |-> changes[i].new_mode]

\* C20 (as stated): over add_usage events of one month, starting from normal,
\* the mode after each event is never lower than before it and never skips a
\* step: emergency is entered only from economy, normal is left only for
\* economy.
C20_MonotonicAndNeverSkips ==
    last.op = "add_usage" =>
        /\ Rank(current_mode) >= Rank(last.pre_mode)
        /\ Rank(current_mode) <= Rank(last.pre_mode) + 1

\* C20 (amended): over add_usage events of one month, starting from normal,
\* the modes are monotonic: no event lowers the mode, the modes logged in the
\* ledger never decrease, and the mode in force, also after a restart, is at
\* least every mode logged.
C20_ModesNeverDecrease ==
    /\ last.op = "add_usage" => Rank(current_mode) >= Rank(last.pre_mode)
    /\ \A i, j \in 1..Len(LoggedModes) :
           i < j => Rank(LoggedModes[i]) <= Rank(LoggedModes[j])
    /\ \A i \in 1..Len(LoggedModes) :
           Rank(current_mode) >= Rank(LoggedModes[i])

\* one event has carried the spend from below 80% to 95% or more of the
\* budget, and the mode from normal straight to emergency
C20_Witness ==
    /\ last.op = "add_usage"
    /\ last.pre_mode = "normal"
    /\ current_mode = "emergency"
    /\ ~PercentageAtLeast(last.pre_monthly, monthly_budget, 80 * 100)
    /\ SpendAtLeast(95)

RECURSIVE GCD(_, _)
GCD(m, n) == IF n = 0 THEN m ELSE GCD(n, m % n)

\* usage_a / budget_a = usage_b / budget_b, without multiplying the usages
SameRatio(usage_a, budget_a, usage_b, budget_b) ==
    LET g == GCD(budget_a, budget_b)
        pa == budget_a \div g
        pb == budget_b \div g
    IN  /\ usage_a % pa = 0
        /\ usage_b % pb = 0
        /\ usage_a \div pa = usage_b \div pb

\* two optimizers agree on the mode and on
\* percentage_used = monthly_usage / monthly_budget * 100
AgreeOnModeAndPercentage(a, b, now) ==
    /\ a.current_mode = b.current_mode
    /\ SameRatio(get_current_month_usage(a, now), a.monthly_budget,
                 get_current_month_usage(b, now), b.monthly_budget)

\* C21: select_model_by_budget is deterministic in (error_count, mode,
\* percentage_used): two runs from states that agree on the mode and on the
\* percentage of the budget spent this month, asked with the same
\* error_count, return the same (model, reason), whatever else their ledgers
\* hold and whatever was called before.
C21_SelectionIsDeterministic ==
    (last.op = "select_in_both"
     /\ AgreeOnModeAndPercentage(last.a, last.b, today))
        => last.result_a = last.result_b

\* two runs that agree on mode and percentage over different ledgers, one of
\* them with the spend of an earlier day, and got the same answer
C21_Witness ==
    /\ last.op = "select_in_both"
    /\ AgreeOnModeAndPercentage(last.a, last.b, today)
    /\ get_current_month_usage(last.a, today) > 0
    /\ get_daily_usage(last.a, today) # get_daily_usage(last.b, today)
    /\ Len(last.a.tracking_data) # Len(last.b.tracking_data)
    /\ last.a.current_mode = "normal"
    /\ last.result_a = last.result_b

\* the service answered a pass with text that is not JSON
NonJsonResponse ==
    /\ last.op = "fix_errors"
    /\ last.total_errors > 0
    /\ last.responded
    /\ last.body = "prose"

\* C22 (as stated): when the service returns text that is not valid JSON,
\* fix_errors returns fixes = [] and a summary equal to the raw response
\* text.
C22_SummaryIsTheRawText ==
    NonJsonResponse =>
        /\ last.result.fixes = <<>>
        /\ last.result.summary = last.response_text

\* C22 (amended): when the service returns text that is not valid JSON,
\* fix_errors returns, without raising, fixes = [], the summary
\* "Failed to generate fixes: " followed by the message of the JSON decoder,
\* and that message under "error"; the pass is over and the history is as it
\* was.
C22_FailureResultOnNonJson ==
    NonJsonResponse =>
        /\ last.result.fixes = <<>>
        /\ last.result.summary =
               "Failed to generate fixes: " \o ParseError(last.body)
        /\ last.result.error = ParseError(last.body)
        /\ fx.pc = "idle"

\* prose inside a json fence was answered and the pass returned the
\* failure result
C22_Witness ==
    /\ NonJsonResponse
    /\ last.response_text = ResponseText("json_fence", "prose")
    /\ last.result.fixes = <<>>
    /\ "error" \in DOMAIN last.result

\* the records the per-file limit leaves: the sum over the files of
\* min(2, records of the file)
Candidates(errors) ==
    Cardinality({<<f, i>> \in FilesOf(errors) \X {1, 2} :
                    i <= CountIn(errors, f)})

\* C23: when the input has at most 3 * max_fixes records and the sum over the
\* files of min(2, records of the file) is at least max_fixes,
\* prioritize_errors returns exactly max_fixes records.
C23_ExactlyCapWhenEnoughCandidates ==
    (/\ last.op = "prioritize_errors"
     /\ Len(last.errors) <= 3 * last.max_fixes
     /\ Candidates(last.errors) >= last.max_fixes)
        => Len(last.batch) = last.max_fixes

\* 12 records of three files (5, 4, 3), cap 5, and a batch of exactly 5
C23_Witness ==
    /\ last.op = "prioritize_errors"
    /\ last.max_fixes = DefaultMaxFixes
    /\ Len(last.errors) = 12
    /\ Cardinality(FilesOf(last.errors)) = 3
    /\ {CountIn(last.errors, f) : f \in FilesOf(last.errors)} = {5, 4, 3}
    /\ Len(last.batch) = 5

\* how often a record occurs in a list
Occurrences(errors, error) ==
    Cardinality({i \in 1..Len(errors) : errors[i] = error})

\* C24: no record left out of the batch has a strictly higher priority_score
\* than a record in the batch, unless the file of the left-out record already
\* contributes 2 records to the batch.
C24_HigherScoreLeftOutOnlyAtFileLimit ==
    last.op = "prioritize_errors" =>
        \A i \in 1..Len(last.errors), j \in 1..Len(last.batch) :
            (/\ Occurrences(last.batch, last.errors[i])
                    < Occurrences(last.errors, last.errors[i])
             /\ priority_score(last.errors[i]) > priority_score(last.batch[j]))
                => CountIn(last.batch, last.errors[i].file) = 2

\* C25: the batch returned by prioritize_errors contains no two structurally
\* identical records, also when the input contains such records.
C25_BatchHasNoIdenticalRecords ==
    last.op = "prioritize_errors" =>
        \A i, j \in 1..Len(last.batch) :
            i # j => last.batch[i] # last.batch[j]

\* the records the well-formed entries of a report stand for, in the order of
\* the report
RECURSIVE WellFormedRecords(_, _)
WellFormedRecords(tool, report) ==
    IF report = <<>> THEN <<>>
    ELSE LET entry == Head(report)
             IsWellFormed(item) == item.well_formed
             HasFailed(item) == item.well_formed /\ item.status = "failed"
             messages == SelectSeq(entry.messages, IsWellFormed)
             failed == SelectSeq(entry.assertionResults, HasFailed)
             records ==
                 IF ~entry.well_formed THEN <<>>
                 ELSE IF tool = "typescript" THEN <<TsRecord(entry).error>>
                 ELSE IF tool = "eslint"
                 THEN [i \in 1..Len(messages) |->
                          EslintRecord(entry.filePath, messages[i])]
                 ELSE [i \in 1..Len(failed) |->
                          TestRecord(entry.name, failed[i])]
         IN  records \o WellFormedRecords(tool, Tail(report))

\* C26: in each of the three parsers a malformed line or entry is skipped
\* without aborting the batch: every well-formed entry of the report, before
\* or after a malformed one, yields its record.
C26_MalformedEntriesAreSkipped ==
    last.op = "parse" => last.errors = WellFormedRecords(last.tool, last.report)

\* a spend event as add_usage writes it
IsUsageEvent(entry) ==
    /\ {"model", "tokens_used", "cost"} \subseteq DOMAIN entry
    /\ entry.tokens_used >= 0
    /\ entry.cost >= 0

\* a log entry as set_mode writes it: no model, no tokens, no cost
IsModeChangeLog(entry) ==
    /\ DOMAIN entry = {"date", "action", "old_mode", "new_mode", "reason"}
    /\ entry.action = "mode_change"
    /\ entry.new_mode \in valid_modes

\* C27 (as stated): every entry of the ledger, in memory and in the tracking
\* file, is a usage event: it carries a model, tokens_used >= 0 and
\* cost >= 0.
C27_LedgerHoldsOnlyUsageEvents ==
    /\ \A i \in 1..Len(tracking_data) : IsUsageEvent(tracking_data[i])
    /\ \A i \in 1..Len(tracking_file.entries) :
           IsUsageEvent(tracking_file.entries[i])

\* C27 (amended): every entry of the ledger, in memory and in the tracking
\* file, is either a usage event with a model, tokens_used >= 0 and
\* cost >= 0, or a mode_change log entry of set_mode, which has neither.
C27_LedgerHoldsUsageEventsAndModeChanges ==
    /\ \A i \in 1..Len(tracking_data) :
           IsUsageEvent(tracking_data[i]) \/ IsModeChangeLog(tracking_data[i])
    /\ \A i \in 1..Len(tracking_file.entries) :
           \/ IsUsageEvent(tracking_file.entries[i])
           \/ IsModeChangeLog(tracking_file.entries[i])

\* a manual set_mode has added its log entry to a ledger that holds a usage
\* event, and the file holds both
C27_Witness ==
    /\ last.op = "set_mode"
    /\ tracking_file.entries = tracking_data
    /\ \E i \in 1..Len(tracking_data) : IsUsageEvent(tracking_data[i])
    /\ IsModeChangeLog(tracking_data[Len(tracking_data)])

\* C28: a new CostOptimizer created after any sequence of add_usage,
\* check_budget_status and set_mode calls starts in the mode that was last
\* persisted, which is the mode the process before it ended in; it starts in
\* normal only when that mode is normal (the first process, which finds no
\* config record, writes one with mode normal).
C28_ModeSurvivesRestart ==
    [][last'.op = "restart" =>
          /\ config_file.exists
          /\ current_mode' = config_file.current_mode
          /\ current_mode' = current_mode
          /\ config_file' = config_file]_vars

\* a process moved to emergency by its spend was followed by a new one, which
\* started in emergency
C28_Witness ==
    /\ last.op = "restart"
    /\ current_mode = "emergency"
    /\ config_file.current_mode = "emergency"
    /\ \E i \in 1..Len(tracking_data) :
         /\ tracking_data[i].action = "mode_change"
         /\ tracking_data[i].new_mode = "emergency"

\* both invocations have returned
BothExited == \A p \in RaceProcs : procs[p].pc = "exited"

\* the persisted ledger holds the event of invocation p less often than
\* invocations have recorded it
EventLost(p) ==
    Occurrences(PersistedLedger, procs[p].entry)
        < Cardinality({q \in RaceProcs : procs[q].entry = procs[p].entry})

\* C29: when two update-usage invocations have both returned and the
\* persisted ledger lacks one of their two events, the invocations ran at the
\* same time: run one after the other they always leave both events in the
\* ledger. (That an interleaving loses an event is the state C29_Witness.)
C29_SequentialRunsKeepBothEvents ==
    (BothExited /\ \E p \in RaceProcs : EventLost(p))
        => \E p \in RaceProcs : ~procs[p].alone

\* both invocations have returned, each recorded a different event, and the
\* persisted ledger holds the event of one of them only
C29_Witness ==
    /\ BothExited
    /\ procs[1].entry # procs[2].entry
    /\ \E p \in RaceProcs :
         /\ EventLost(p)
         /\ Occurrences(PersistedLedger, procs[p].entry) = 0
         /\ \A q \in RaceProcs \ {p} : ~EventLost(q)

\* C30: a check_budget_status call, from check-budget, get-status or
\* select_model_by_budget, that ends in the mode it started in leaves the
\* ledger unchanged, in memory and in the tracking file.
C30_CheckInSameModeLeavesLedger ==
    [][(/\ last'.op \in {"check_budget_status", "select_model_by_budget"}
        /\ current_mode' = current_mode)
          => /\ tracking_data' = tracking_data
             /\ tracking_file' = tracking_file]_vars

====
